---------------------------- MODULE Spec2Model ----------------------------
(***************************************************************************)
(* LargePrecisionTensor (syft/frameworks/torch/tensors/interpreters/      *)
(* large_precision_tensor.py): numbers wider than a native integer are    *)
(* split into base-2^precision digits, stored in a 32-bit IntTensor whose *)
(* last axis is the digit axis, added digit by digit, and restored.       *)
(***************************************************************************)
EXTENDS Integers, Sequences, FiniteSets, TLC

(***************************************************************************)
(* Python's int is unbounded.  A Python int is modelled as an infinite    *)
(* two's-complement string of 16-bit limbs: d holds the low limbs, least  *)
(* significant first, and s is the sign, the bit that repeats forever     *)
(* above them (0 for a number >= 0, 1 for a negative one).  The           *)
(* representation is kept normal (the last limb of d is not the sign's    *)
(* limb), so equal numbers are equal records.  0 is [d |-> <<>>, s |-> 0] *)
(* and -1 is [d |-> <<>>, s |-> 1].                                        *)
(***************************************************************************)
LimbBits == 16

LimbBase == 65536

SignLimb(s) == s * (LimbBase - 1)

RECURSIVE Norm(_, _)
Norm(d, s) ==
    IF d # <<>> /\ d[Len(d)] = SignLimb(s)
    THEN Norm(SubSeq(d, 1, Len(d) - 1), s)
    ELSE [d |-> d, s |-> s]

Zero == [d |-> <<>>, s |-> 0]

One == [d |-> <<1>>, s |-> 0]

IsZero(x) == x = Zero

IsNeg(x) == x.s = 1

Max(i, j) == IF i >= j THEN i ELSE j

\* The function f on 1..n as the sequence <<f[1], ..., f[n]>>.
AsSeq(f, n) == SubSeq(f, 1, n)

\* The i-th limb of the infinite string; limb 0 and below stand for the zeros
\* a left shift brings in.
Limb(x, i) ==
    IF i < 1 THEN 0
    ELSE IF i <= Len(x.d) THEN x.d[i] ELSE SignLimb(x.s)

\* The i-th bit (i >= 1, least significant first) of the infinite string.
Bit(x, i) == (Limb(x, (i - 1) \div LimbBits + 1) \div 2^((i - 1) % LimbBits)) % 2

\* A machine integer (-2^31 .. 2^31 - 1) as a Python int.
FromInt(k) ==
    IF k >= 0
    THEN Norm(<<k % LimbBase, k \div LimbBase>>, 0)
    ELSE Norm(<<LimbBase - 1 - ((-1 - k) % LimbBase),
                LimbBase - 1 - ((-1 - k) \div LimbBase)>>, 1)

\* x * 2^k, k >= 0.
Shl(x, k) ==
    LET q == k \div LimbBits
        r == k % LimbBits
    IN  Norm(AsSeq([i \in 1..(Len(x.d) + q + 1) |->
                       ((Limb(x, i - q) * 2^r) % LimbBase)
                       + (Limb(x, i - q - 1) \div 2^(LimbBits - r))],
                   Len(x.d) + q + 1), x.s)

\* floor(x / 2^k), k >= 0.
Shr(x, k) ==
    LET q == k \div LimbBits
        r == k % LimbBits
    IN  Norm(AsSeq([i \in 1..Max(Len(x.d) - q, 0) |->
                       (Limb(x, i + q) \div 2^r)
                       + ((Limb(x, i + q + 1) % 2^r) * 2^(LimbBits - r))],
                   Max(Len(x.d) - q, 0)), x.s)

\* x mod 2^k, k >= 0: never negative, as Python's % with a positive modulus.
LowBits(x, k) ==
    LET q == k \div LimbBits
        r == k % LimbBits
    IN  Norm(AsSeq([i \in 1..(q + 1) |->
                       IF i <= q THEN Limb(x, i) ELSE Limb(x, i) % 2^r],
                   q + 1), 0)

Pow2(k) == Shl(One, k)

\* x + y, by ripple carry over one limb more than the wider operand.
RECURSIVE AddLimbs(_, _, _, _, _)
AddLimbs(x, y, i, w, carry) ==
    IF i > w THEN <<>>
    ELSE LET t == Limb(x, i) + Limb(y, i) + carry
         IN  <<t % LimbBase>> \o AddLimbs(x, y, i + 1, w, t \div LimbBase)

BigAdd(x, y) ==
    LET w == Max(Len(x.d), Len(y.d)) + 1
        limbs == AddLimbs(x, y, 1, w, 0)
    IN  Norm(limbs, IF limbs[w] >= LimbBase \div 2 THEN 1 ELSE 0)

BigNeg(x) ==
    BigAdd([d |-> AsSeq([i \in 1..Len(x.d) |-> LimbBase - 1 - x.d[i]], Len(x.d)),
            s |-> 1 - x.s], One)

BigSub(x, y) == BigAdd(x, BigNeg(y))

BigLess(x, y) == IsNeg(BigSub(x, y))

BigLeq(x, y) == ~BigLess(y, x)

BigAbs(x) == IF IsNeg(x) THEN BigNeg(x) ELSE x

\* The number of bits of a number >= 0: 0 for 0, k + 1 for 2^k .. 2^(k+1) - 1.
BitLen(x) ==
    IF x.d = <<>> THEN 0
    ELSE LET top == x.d[Len(x.d)]
         IN  LimbBits * (Len(x.d) - 1)
             + (CHOOSE n \in 1..LimbBits : 2^(n - 1) <= top /\ top < 2^n)

(***************************************************************************)
(* Bounds of the model.                                                    *)
(***************************************************************************)
\* The split loop is followed for at most this many passes.
MaxParts == 104

\* At most this many += in one run.
MaxAdds == 1

\* The first element of a tensor handed to fix is 0, -1 or m * 2^e, m in
\* 1..MaxMant, e in Exponents; the elements after it are m * 2^e, e in
\* RestExponents.
MaxMant == 1

Exponents == {-1, 0, 30, 31, 100}

RestExponents == {0, 100}

\* Numbers handed to _split_number are h * 2^sh + l, h in -1..MaxHigh, l in 0..MaxLow.
MaxHigh == 2

MaxLow == 3

Shifts == {8, 31, 64, 100}

SplitNumbers ==
    { BigAdd(Shl(FromInt(h), sh), FromInt(l)) :
        h \in -1..MaxHigh, sh \in Shifts, l \in 0..MaxLow }

\* The bits handed to _split_number: the four precisions of the class, the
\* smallest bases, and the two kinds of invalid value (zero, negative).
SplitBits == {-1, 0, 1, 2, 4, 8, 16, 32}

VARIABLES
    arg,            \* _split_number: the number it was called with
    bits,           \* _split_number: its bits argument
    number,         \* _split_number: the local number, divided pass by pass
    number_parts,   \* _split_number: the local list of parts
    pc,             \* where the codec call is: "call", "loop", "return", "done"
    returned,       \* the list _split_number returned
    restored,       \* what the two restore helpers made of that list
    axes,           \* the leading axes (the shape) of every tensor handed to fix
    tensors,        \* the LargePrecisionTensor instances: precision, virtual_prec, child
    fixedFrom,      \* per instance: the tensor its child was fixed from; None after +=
    adds,           \* the number of += so far
    outcome         \* the last call: its name, its operands and what it returned

codecVars == <<arg, bits, number, number_parts, pc, returned, restored>>

Reverse(s) == AsSeq([i \in 1..Len(s) |-> s[Len(s) + 1 - i]], Len(s))

(***************************************************************************)
(* A Python float with a 53-bit significand, as the integer it holds: the  *)
(* integer x rounded to k significant bits, ties to even.                  *)
(***************************************************************************)
RoundsUp(kept, rem, half) ==
    BigLess(half, rem) \/ (rem = half /\ Bit(kept, 1) = 1)

\* a >= 0 with its low d bits (d >= 1) rounded away.
RoundMag(a, d) ==
    Shl(IF RoundsUp(Shr(a, d), LowBits(a, d), Pow2(d - 1))
        THEN BigAdd(Shr(a, d), One)
        ELSE Shr(a, d), d)

RoundSig(x, k) ==
    IF BitLen(BigAbs(x)) <= k THEN x
    ELSE IF IsNeg(x) THEN BigNeg(RoundMag(BigAbs(x), BitLen(BigAbs(x)) - k))
    ELSE RoundMag(x, BitLen(x) - k)

\* divmod with a remainder one bit too wide: the faulty variant the
\* split/restore inverse is tried against.
DivModWideRemainder(n, k) ==
    IF k >= 0 THEN [q |-> Shr(n, k), r |-> LowBits(n, k + 1)]
    ELSE [q |-> Shl(RoundSig(n, 53), -k), r |-> Zero]

(***************************************************************************)
(* divmod(number, 2 ** bits).  For bits >= 0 the base is an int and the    *)
(* quotient is the floor: the bits above the low `bits` ones, the sign     *)
(* kept; the remainder is the low `bits` bits, never negative.  For        *)
(* bits < 0 the base 2 ** bits is a float below 1: the number is taken as  *)
(* a float, the quotient is number * 2^-bits and the remainder is 0.0.     *)
(***************************************************************************)
DivMod(n, k) ==
    IF k >= 0 THEN [q |-> Shr(n, k), r |-> LowBits(n, k)]
    ELSE [q |-> Shl(RoundSig(n, 53), -k), r |-> Zero]

(***************************************************************************)
(* _split_number, as one value: the list it returns, or hang when its      *)
(* while loop cannot end.  A pass that leaves number as it was repeats     *)
(* forever (the loop reads nothing else), and with bits < 0 every pass     *)
(* doubles a number that is not zero.  st holds the loop's two locals.     *)
(***************************************************************************)
RECURSIVE SplitWhile(_, _)
SplitWhile(st, k) ==
    IF IsZero(st.number) THEN [hang |-> FALSE, parts |-> Reverse(st.number_parts)]
    ELSE LET dm == DivMod(st.number, k)
         IN  IF k < 0 \/ dm.q = st.number THEN [hang |-> TRUE, parts |-> <<>>]
             ELSE SplitWhile([number |-> dm.q,
                              number_parts |-> Append(st.number_parts, dm.r)], k)

_split_number(n, k) ==
    IF IsZero(n) THEN [hang |-> FALSE, parts |-> <<n>>]
    ELSE SplitWhile([number |-> n, number_parts |-> <<>>], k)

(***************************************************************************)
(* _restore_number: n = n * base + number_parts.pop() over the reversed    *)
(* list, so the parts are taken most significant first.                    *)
(***************************************************************************)
RECURSIVE RestoreWhile(_, _)
RestoreWhile(st, k) ==
    IF st.number_parts = <<>> THEN st.n
    ELSE RestoreWhile(
             [n |-> BigAdd(Shl(st.n, k), st.number_parts[Len(st.number_parts)]),
              number_parts |-> SubSeq(st.number_parts, 1, Len(st.number_parts) - 1)], k)

_restore_number(parts, k) == RestoreWhile([n |-> Zero, number_parts |-> Reverse(parts)], k)

(***************************************************************************)
(* _restore_number_np: n = n * base + x for x in number_parts.tolist().    *)
(* tolist() hands the elements of the array over as Python ints.           *)
(***************************************************************************)
RECURSIVE RestoreFor(_, _)
RestoreFor(st, k) ==
    IF st.xs = <<>> THEN st.n
    ELSE RestoreFor([n |-> BigAdd(Shl(st.n, k), Head(st.xs)), xs |-> Tail(st.xs)], k)

_restore_number_np(xs, k) == RestoreFor([n |-> Zero, xs |-> xs], k)

(***************************************************************************)
(* Tensors.  An array (numpy or torch) is its shape and its elements in   *)
(* row-major order.  The elements of a torch.IntTensor are machine         *)
(* integers, -2^31 .. 2^31 - 1.  None is the child of an instance that     *)
(* holds no tensor yet.                                                    *)
(***************************************************************************)
None == [shape |-> <<>>, data |-> <<>>]

RECURSIVE Prod(_)
Prod(shape) == IF shape = <<>> THEN 1 ELSE Head(shape) * Prod(Tail(shape))

\* shape[-1] and shape[:-1].
Last(shape) == shape[Len(shape)]

Lead(shape) == SubSeq(shape, 1, Len(shape) - 1)

\* The r-th run of the trailing axis (r >= 1): one element's digits.
Row(t, r) == SubSeq(t.data, (r - 1) * Last(t.shape) + 1, r * Last(t.shape))

NumRows(t) == Prod(Lead(t.shape))

(***************************************************************************)
(* A value wider than 32 bits stored in an int32 element keeps its low 32  *)
(* bits, read as two's complement (the cast of torch.IntTensor(ndarray),   *)
(* and the overflow of int32 addition).                                    *)
(***************************************************************************)
Wrap32(x) ==
    IF Limb(x, 2) < LimbBase \div 2
    THEN Limb(x, 1) + LimbBase * Limb(x, 2)
    ELSE -1 - ((LimbBase - 1 - Limb(x, 1)) + LimbBase * (LimbBase - 1 - Limb(x, 2)))

\* tolist() of a row of int32 elements: Python ints.
tolist(row) == AsSeq([i \in 1..Len(row) |-> FromInt(row[i])], Len(row))

(***************************************************************************)
(* An element of the tensor handed to fix is a float m * 2^e.  Line 37:    *)
(* n = int(x.item() * 2 ** virtual_prec); the product with a power of two  *)
(* is exact and int() drops the fraction, towards zero.                    *)
(***************************************************************************)
ScaledInt(x, virtual_prec) ==
    LET k == x.e + virtual_prec
    IN  IF k >= 0 THEN Shl(FromInt(x.m), k)
        ELSE IF x.m >= 0 THEN Shr(FromInt(x.m), -k)
        ELSE BigNeg(Shr(FromInt(-x.m), -k))

RECURSIVE Flatten(_)
Flatten(rows) == IF rows = <<>> THEN <<>> ELSE Head(rows) \o Flatten(Tail(rows))

RECURSIVE MaxLen(_)
MaxLen(lists) ==
    IF lists = <<>> THEN 0 ELSE Max(Len(Head(lists)), MaxLen(Tail(lists)))

(***************************************************************************)
(* _create_internal_tensor.  Every element is split in turn, so a split    *)
(* that does not end stops the call.  np.array(result) is a rectangular    *)
(* array only when all the lists have one length; when they have not,      *)
(* reshape(new_shape) has too few elements (or np.array itself refuses the *)
(* ragged list) and a ValueError is raised.  torch.IntTensor(...) then     *)
(* casts every digit to int32.                                             *)
(***************************************************************************)
Ragged(result) == \E i \in 1..Len(result) : Len(result[i]) # MaxLen(result)

IntTensor(result, new_shape) ==
    [shape |-> new_shape,
     data |-> Flatten(AsSeq([i \in 1..Len(result) |->
                  AsSeq([j \in 1..Len(result[i]) |-> Wrap32(result[i][j])],
                        Len(result[i]))], Len(result)))]

Reshaped(tensor, result) ==
    IF Ragged(result)
    THEN [status |-> "ValueError", child |-> None]
    ELSE [status |-> "ok", child |-> IntTensor(result, tensor.shape \o <<MaxLen(result)>>)]

Collected(tensor, splits) ==
    IF \E i \in 1..Len(splits) : splits[i].hang
    THEN [status |-> "hang", child |-> None]
    ELSE Reshaped(tensor, AsSeq([i \in 1..Len(splits) |-> splits[i].parts], Len(splits)))

_create_internal_tensor(tensor, precision, virtual_prec) ==
    Collected(tensor,
              AsSeq([i \in 1..Len(tensor.data) |->
                        _split_number(ScaledInt(tensor.data[i], virtual_prec), precision)],
                    Len(tensor.data)))

(***************************************************************************)
(* torch.cat([x, y], dim): dim counts from 0.  The elements before axis    *)
(* dim select a block of each operand; the blocks are laid side by side.   *)
(***************************************************************************)
Cat(x, y, dim) ==
    LET outer == Prod(SubSeq(x.shape, 1, dim))
        bx == Prod(SubSeq(x.shape, dim + 1, Len(x.shape)))
        by == Prod(SubSeq(y.shape, dim + 1, Len(y.shape)))
    IN  [shape |-> [x.shape EXCEPT ![dim + 1] = x.shape[dim + 1] + y.shape[dim + 1]],
         data |-> Flatten(AsSeq([o \in 1..outer |->
                      SubSeq(x.data, (o - 1) * bx + 1, o * bx)
                      \o SubSeq(y.data, (o - 1) * by + 1, o * by)], outer))]

\* torch.zeros / torch.ones of a shape.
Full(shape, v) == [shape |-> shape, data |-> AsSeq([i \in 1..Prod(shape) |-> v], Prod(shape))]

\* _adjust_to_shape with the filler after to_adjust in the cat: the faulty
\* variant the padding side of add is tried against.
AdjustRight(to_adjust, shape, fill_value) ==
    LET diff_dim == Last(shape) - Last(to_adjust.shape)
        new_shape == Lead(to_adjust.shape) \o <<diff_dim>>
    IN  Cat(to_adjust, Full(new_shape, IF fill_value = 0 THEN 0 ELSE 1), Len(shape) - 1)

(***************************************************************************)
(* _adjust_to_shape: the filler has the leading axes of to_adjust and the  *)
(* missing length of the last axis, and comes first in the cat.            *)
(***************************************************************************)
_adjust_to_shape(to_adjust, shape, fill_value) ==
    LET diff_dim == Last(shape) - Last(to_adjust.shape)
        new_shape == Lead(to_adjust.shape) \o <<diff_dim>>
        filler == Full(new_shape, IF fill_value = 0 THEN 0 ELSE 1)
    IN  Cat(filler, to_adjust, Len(shape) - 1)

(***************************************************************************)
(* x + y of two int32 tensors of one shape: element by element, in int32.  *)
(***************************************************************************)
TensorAdd(x, y) ==
    [shape |-> x.shape,
     data |-> AsSeq([i \in 1..Len(x.data) |->
                  Wrap32(BigAdd(FromInt(x.data[i]), FromInt(y.data[i])))], Len(x.data))]

\* add with a shorter self_ padded behind its digits: the faulty variant
\* the linearity of restore over add is tried against.
AddPadRight(self_, other) ==
    IF Last(self_.shape) # Last(other.shape)
    THEN IF Last(self_.shape) < Last(other.shape)
         THEN TensorAdd(Cat(self_, Full(Lead(self_.shape)
                                        \o <<Last(other.shape) - Last(self_.shape)>>, 0),
                            Len(self_.shape) - 1), other)
         ELSE TensorAdd(_adjust_to_shape(other, self_.shape, 0), self_)
    ELSE TensorAdd(self_, other)

(***************************************************************************)
(* add, on the children of the two instances (self_ and args[0]).          *)
(***************************************************************************)
AddChildren(self_, other) ==
    IF Last(self_.shape) # Last(other.shape)
    THEN IF Last(self_.shape) < Last(other.shape)
         THEN TensorAdd(_adjust_to_shape(self_, other.shape, 0), other)
         ELSE TensorAdd(_adjust_to_shape(other, self_.shape, 0), self_)
    ELSE TensorAdd(self_, other)

(***************************************************************************)
(* __eq__ returns self.child == other.child: torch compares element by     *)
(* element.  The two children share their leading axes; last axes of       *)
(* different lengths are broadcast when one of them is 1 and are a         *)
(* RuntimeError otherwise.  The answer is a tensor of truth values.        *)
(***************************************************************************)
TensorEq(x, y) ==
    LET lx == Last(x.shape)
        ly == Last(y.shape)
        l == Max(lx, ly)
        n == NumRows(x) * l
        at(t, i) == IF Last(t.shape) = l THEN t.data[i] ELSE t.data[(i - 1) \div l + 1]
    IN  IF lx # ly /\ lx # 1 /\ ly # 1
        THEN [status |-> "RuntimeError", shape |-> <<>>, data |-> <<>>]
        ELSE [status |-> "ok",
              shape |-> Lead(x.shape) \o <<l>>,
              data |-> AsSeq([i \in 1..n |-> at(x, i) = at(y, i)], n)]

(***************************************************************************)
(* The float32 made of the integer n (n / 2^virtual_prec is exact in       *)
(* binary): n is rounded to the 53 bits of a float64 by the division, and  *)
(* to the 24 bits of a float32 by astype.  A float32 holds no magnitude of *)
(* 2^128 or more.  The float is num / 2^virtual_prec.                      *)
(***************************************************************************)
Float32(n, virtual_prec) ==
    LET num == RoundSig(RoundSig(n, 53), 24)
    IN  [inf |-> BitLen(BigAbs(num)) - virtual_prec > 128, num |-> num]

(***************************************************************************)
(* restore_precision: np.apply_along_axis(f, 1, child.numpy()) hands f the *)
(* runs of axis 1 (counted from 0) and drops that axis from the shape; an  *)
(* array of one axis has no axis 1.                                        *)
(***************************************************************************)
AlongAxis(child, axis, o, r) ==
    LET len == child.shape[axis + 1]
        inner == Prod(SubSeq(child.shape, axis + 2, Len(child.shape)))
    IN  AsSeq([j \in 1..len |-> child.data[(o - 1) * len * inner + (j - 1) * inner + r]],
              len)

RestoreAlong(child, precision, virtual_prec, axis) ==
    LET outer == Prod(SubSeq(child.shape, 1, axis))
        inner == Prod(SubSeq(child.shape, axis + 2, Len(child.shape)))
    IN  IF Len(child.shape) < axis + 1
        THEN [status |-> "AxisError", shape |-> <<>>, data |-> <<>>]
        ELSE [status |-> "ok",
              shape |-> SubSeq(child.shape, 1, axis)
                        \o SubSeq(child.shape, axis + 2, Len(child.shape)),
              data |-> AsSeq([i \in 1..(outer * inner) |->
                           Float32(_restore_number_np(
                                       tolist(AlongAxis(child, axis,
                                                        (i - 1) \div inner + 1,
                                                        ((i - 1) % inner) + 1)),
                                       precision),
                                   virtual_prec)], outer * inner)]

RestoreChild(child, precision, virtual_prec) ==
    RestoreAlong(child, precision, virtual_prec, 1)

(***************************************************************************)
(* The program: two instances a and b built with one precision and one     *)
(* virtual_prec (lines 16-28), then any calls of fix_large_precision, add, *)
(* +=, == and restore_precision.  The leading axes of every tensor handed  *)
(* to fix are axes.                                                        *)
(***************************************************************************)
Slots == {"a", "b"}

Precisions == {4, 8, 16, 32}

VirtualPrecs == {0, 8, 16}

Shapes == {<<1>>, <<2>>, <<1, 2>>}

RawValues ==
    {[m |-> m, e |-> e] : m \in 1..MaxMant, e \in Exponents}
    \cup {[m |-> 0, e |-> 0], [m |-> -1, e |-> 0]}

RestValues == {[m |-> m, e |-> e] : m \in 1..MaxMant, e \in RestExponents}

RawTensors(shape) ==
    {[shape |-> shape, data |-> d] :
        d \in {f \in [1..Prod(shape) -> RawValues] :
                   \A i \in 2..Prod(shape) : f[i] \in RestValues}}

tensorVars == <<axes, tensors, fixedFrom, adds, outcome>>

vars == <<codecVars, tensorVars>>

\* The codec's variables while the program runs, and the program's while the
\* codec runs: at rest.
CodecIdle ==
    /\ arg = Zero
    /\ bits = 0
    /\ number = Zero
    /\ number_parts = <<>>
    /\ pc = "idle"
    /\ returned = <<>>
    /\ restored = <<>>

TensorsIdle ==
    /\ axes = <<1>>
    /\ tensors = [i \in Slots |-> [precision |-> 16, virtual_prec |-> 0, child |-> None]]
    /\ fixedFrom = [i \in Slots |-> None]
    /\ adds = 0
    /\ outcome = [op |-> "none", status |-> "ok"]

Init ==
    /\ CodecIdle
    /\ \E p \in Precisions, v \in VirtualPrecs :
           tensors = [i \in Slots |-> [precision |-> p, virtual_prec |-> v, child |-> None]]
    /\ fixedFrom = [i \in Slots |-> None]
    /\ adds = 0
    /\ axes \in Shapes
    /\ outcome = [op |-> "none", status |-> "ok"]

\* A call that raises, or that does not return, ends the run: nothing in the
\* class catches an exception.
Running == outcome.status = "ok"

\* Lines 138-140, on an instance whose child is still the tensor t it was
\* built on: fix replaces that child by its digits.
fix_large_precision(i, t) ==
    /\ Running
    /\ tensors[i].child = None
    /\ LET r == _create_internal_tensor(t, tensors[i].precision, tensors[i].virtual_prec)
       IN  /\ tensors' = IF r.status = "ok"
                         THEN [tensors EXCEPT ![i].child = r.child]
                         ELSE tensors
           /\ fixedFrom' = IF r.status = "ok"
                           THEN [fixedFrom EXCEPT ![i] = t]
                           ELSE fixedFrom
           /\ outcome' = [op |-> "fix", status |-> r.status,
                          self |-> i, input |-> t]
    /\ UNCHANGED <<axes, adds, codecVars>>

\* Lines 57-67: a new instance with the sum as its child.
add(i, j) ==
    /\ Running
    /\ tensors[i].child # None
    /\ tensors[j].child # None
    /\ outcome' = [op |-> "add", status |-> "ok", self |-> i, other |-> j,
                   a |-> tensors[i].child, b |-> tensors[j].child,
                   result |-> [precision |-> tensors[i].precision,
                               virtual_prec |-> tensors[i].virtual_prec,
                               child |-> AddChildren(tensors[i].child, tensors[j].child)]]
    /\ UNCHANGED <<axes, tensors, fixedFrom, adds, codecVars>>

\* Lines 71-76: self.child = self.add(other).child.
__iadd__(i, j) ==
    /\ Running
    /\ adds < MaxAdds
    /\ tensors[i].child # None
    /\ tensors[j].child # None
    /\ tensors' = [tensors EXCEPT ![i].child = AddChildren(tensors[i].child, tensors[j].child)]
    /\ fixedFrom' = [fixedFrom EXCEPT ![i] = None]
    /\ adds' = adds + 1
    /\ outcome' = [op |-> "iadd", status |-> "ok", self |-> i, other |-> j,
                   a |-> tensors[i].child, b |-> tensors[j].child]
    /\ UNCHANGED <<axes, codecVars>>

\* Lines 53-54.
__eq__(i, j) ==
    /\ Running
    /\ tensors[i].child # None
    /\ tensors[j].child # None
    /\ LET r == TensorEq(tensors[i].child, tensors[j].child)
       IN  outcome' = [op |-> "eq", status |-> r.status, self |-> i, other |-> j,
                       a |-> tensors[i].child, b |-> tensors[j].child, result |-> r]
    /\ UNCHANGED <<axes, tensors, fixedFrom, adds, codecVars>>

\* Lines 142-153.
restore_precision(i) ==
    /\ Running
    /\ tensors[i].child # None
    /\ LET r == RestoreChild(tensors[i].child, tensors[i].precision,
                                  tensors[i].virtual_prec)
       IN  outcome' = [op |-> "restore", status |-> r.status,
                       self |-> i, a |-> tensors[i].child, result |-> r]
    /\ UNCHANGED <<axes, tensors, fixedFrom, adds, codecVars>>

Next ==
    \/ \E i \in Slots : \E t \in RawTensors(axes) : fix_large_precision(i, t)
    \/ \E i \in Slots : \E j \in Slots \ {i} : add(i, j)
    \/ \E i \in Slots : \E j \in Slots \ {i} : __iadd__(i, j)
    \/ \E i \in Slots : \E j \in Slots \ {i} : __eq__(i, j)
    \/ \E i \in Slots : restore_precision(i)

Spec == Init /\ [][Next]_vars

(***************************************************************************)
(* Properties of the program, checked under Spec.                          *)
(***************************************************************************)
\* The digits _split_number makes of element r of the tensor t handed to fix.
DigitsOf(t, r, precision, virtual_prec) ==
    _split_number(ScaledInt(t.data[r], virtual_prec), precision).parts

\* num / 2^virtual_prec is within 2^-virtual_prec of the float x = m * 2^e.
WithinError(num, x, virtual_prec) ==
    LET s == Max(0, -(x.e + virtual_prec))
    IN  BigLeq(BigAbs(BigSub(Shl(num, s), Shl(FromInt(x.m), x.e + virtual_prec + s))),
               Pow2(s))

\* An int32 element is a digit of the base 2^precision.
InRange(d, precision) == d >= 0 /\ (precision >= 31 \/ d < 2^precision)

AllInRange(t, precision) == \A k \in 1..Len(t.data) : InRange(t.data[k], precision)

\* The digit at position k of row r of t, the row left-padded with zeros to length L.
PadAt(t, r, k, L) ==
    IF k <= L - Last(t.shape) THEN 0 ELSE Row(t, r)[k - (L - Last(t.shape))]

\* x + y in 32-bit two's complement, written without a sum that leaves the range.
Int32Sum(x, y) ==
    IF x >= 0 /\ y >= 0 /\ x > 2147483647 - y
    THEN (x - 2147483647 - 1) + (y - 2147483647 - 1)
    ELSE IF x < 0 /\ y < 0 /\ x < (-2147483647 - 1) - y
    THEN (x + 2147483647 + 1) + (y + 2147483647 + 1)
    ELSE x + y

\* The last call was add or +=; the instance that holds its sum.
IsAdd == outcome.op \in {"add", "iadd"}

AddResult == IF outcome.op = "add" THEN outcome.result ELSE tensors[outcome.self]

AddLen == Max(Last(outcome.a.shape), Last(outcome.b.shape))

\* C2: fix stores the digits of every element without wraparound (also at
\* precision 32), and restore_precision of an instance fixed from x returns
\* a tensor of the shape of x, each element within 2^-virtual_prec of x.
C2_RoundTripWithinError ==
    /\ \A i \in Slots :
           fixedFrom[i] # None =>
               \A r \in 1..Len(fixedFrom[i].data) :
                   tolist(Row(tensors[i].child, r))
                       = DigitsOf(fixedFrom[i], r, tensors[i].precision,
                                  tensors[i].virtual_prec)
    /\ (outcome.op = "restore" /\ fixedFrom[outcome.self] # None) =>
           /\ outcome.status = "ok"
           /\ outcome.result.shape = fixedFrom[outcome.self].shape
           /\ \A r \in 1..Len(fixedFrom[outcome.self].data) :
                  /\ ~outcome.result.data[r].inf
                  /\ WithinError(outcome.result.data[r].num,
                                 fixedFrom[outcome.self].data[r],
                                 tensors[outcome.self].virtual_prec)

\* C3: every element of every digit array made by fix, add and += from
\* tensors of values >= 0 lies in 0 .. 2^precision - 1.
C3_DigitsInRange ==
    /\ \A i \in Slots :
           tensors[i].child # None => AllInRange(tensors[i].child, tensors[i].precision)
    /\ outcome.op = "add" => AllInRange(outcome.result.child, outcome.result.precision)

\* += of two arrays of digits in range left a digit of 2^precision or more.
C3_SumDigitOutOfRange ==
    /\ outcome.op = "iadd"
    /\ tensors[outcome.self].precision = 8
    /\ AllInRange(outcome.a, 8)
    /\ AllInRange(outcome.b, 8)
    /\ \E k \in 1..Len(tensors[outcome.self].child.data) :
           tensors[outcome.self].child.data[k] >= 256

\* C4: fix of a tensor whose elements (all >= 0) need different numbers of
\* digits succeeds; the child has the tensor's shape plus one axis of the
\* greatest number of digits L, and the row of every element is its digits
\* behind L - (its number of digits) zeros.
C4_RaggedBatchLeftPadded ==
    LET t == outcome.input
        i == outcome.self
        n == Len(t.data)
        result == AsSeq([r \in 1..n |->
                            DigitsOf(t, r, tensors[i].precision, tensors[i].virtual_prec)], n)
        L == MaxLen(result)
    IN  (/\ outcome.op = "fix"
         /\ \A r \in 1..n : t.data[r].m >= 0
         /\ Ragged(result)) =>
            /\ outcome.status = "ok"
            /\ tensors[i].child.shape = t.shape \o <<L>>
            /\ \A r \in 1..n :
                   tolist(Row(tensors[i].child, r))
                       = AsSeq([k \in 1..(L - Len(result[r])) |-> Zero], L - Len(result[r]))
                         \o result[r]

\* C5 (amended): add returns an array with the operands' leading axes and
\* the longer trailing length; its digit at each position is the sum, in
\* 32-bit two's complement, of the operands' digits there, the shorter
\* operand left-padded with zeros; nothing is carried; the result has the
\* precision and virtual_prec of self.
C5_AddPadsLeftSumsInInt32 ==
    IsAdd =>
        /\ AddResult.child.shape = Lead(outcome.a.shape) \o <<AddLen>>
        /\ \A r \in 1..NumRows(outcome.a), k \in 1..AddLen :
               Row(AddResult.child, r)[k]
                   = Int32Sum(PadAt(outcome.a, r, k, AddLen), PadAt(outcome.b, r, k, AddLen))
        /\ AddResult.precision = tensors[outcome.self].precision
        /\ AddResult.virtual_prec = tensors[outcome.self].virtual_prec

\* Operands of different trailing lengths were added and a digit of the sum
\* is 2^precision or more, not carried.
C5_PaddedSumOutOfRange ==
    /\ IsAdd
    /\ Last(outcome.a.shape) # Last(outcome.b.shape)
    /\ AllInRange(outcome.a, AddResult.precision)
    /\ AllInRange(outcome.b, AddResult.precision)
    /\ ~AllInRange(AddResult.child, AddResult.precision)

\* C5 (as claimed): the digit at each position of add's result is exactly
\* the sum of the operands' digits there, the shorter left-padded.
C5_AddSumsExactly ==
    IsAdd =>
        /\ AddResult.child.shape = Lead(outcome.a.shape) \o <<AddLen>>
        /\ \A r \in 1..NumRows(outcome.a), k \in 1..AddLen :
               FromInt(Row(AddResult.child, r)[k])
                   = BigAdd(FromInt(PadAt(outcome.a, r, k, AddLen)),
                            FromInt(PadAt(outcome.b, r, k, AddLen)))
        /\ AddResult.precision = tensors[outcome.self].precision
        /\ AddResult.virtual_prec = tensors[outcome.self].virtual_prec

\* C7: restore_precision of a child of shape S + (L,) returns a tensor of
\* shape S; its element at each index of S is the float of the fold of the
\* child's row of L digits at that index, divided by 2^virtual_prec.
C7_RestoreFoldsTrailingAxis ==
    outcome.op = "restore" =>
        /\ outcome.status = "ok"
        /\ outcome.result.shape = Lead(outcome.a.shape)
        /\ \A r \in 1..NumRows(outcome.a) :
               outcome.result.data[r]
                   = Float32(_restore_number_np(tolist(Row(outcome.a, r)),
                                                tensors[outcome.self].precision),
                             tensors[outcome.self].virtual_prec)

\* C8: == does not raise, and it is true (at every position of its answer)
\* exactly when the two children have the same shape and the same digits.
C8_EqualityIsExact ==
    outcome.op = "eq" =>
        /\ outcome.status = "ok"
        /\ (\A k \in 1..Len(outcome.result.data) : outcome.result.data[k])
               <=> (outcome.a = outcome.b)

\* C10: when the digits of a and b are >= 0 and no sum of two of them leaves
\* the int32 range, every row of add(a, b) restores to the sum of what the
\* rows of a and b restore to, and add(b, a) is the same array.
C10_RestoreLinearOverAdd ==
    (/\ IsAdd
     /\ \A k \in 1..Len(outcome.a.data) : outcome.a.data[k] >= 0
     /\ \A k \in 1..Len(outcome.b.data) : outcome.b.data[k] >= 0
     /\ \A r \in 1..NumRows(outcome.a), k \in 1..AddLen :
            PadAt(outcome.a, r, k, AddLen) <= 2147483647 - PadAt(outcome.b, r, k, AddLen)) =>
        /\ \A r \in 1..NumRows(outcome.a) :
               _restore_number_np(tolist(Row(AddResult.child, r)), AddResult.precision)
                   = BigAdd(_restore_number_np(tolist(Row(outcome.a, r)), AddResult.precision),
                            _restore_number_np(tolist(Row(outcome.b, r)), AddResult.precision))
        /\ AddResult.child = AddChildren(outcome.b, outcome.a)

\* Two arrays of different trailing lengths, neither of them zero, were
\* added, and the sum restores to more than either operand.
C10_UnequalLengthsAdded ==
    /\ IsAdd
    /\ Last(outcome.a.shape) # Last(outcome.b.shape)
    /\ \A k \in 1..Len(outcome.a.data) : outcome.a.data[k] >= 0
    /\ \A k \in 1..Len(outcome.b.data) : outcome.b.data[k] >= 0
    /\ \A k \in 1..Len(AddResult.child.data) : AddResult.child.data[k] >= 0
    /\ LET ra == _restore_number_np(tolist(Row(outcome.a, 1)), AddResult.precision)
           rb == _restore_number_np(tolist(Row(outcome.b, 1)), AddResult.precision)
           rc == _restore_number_np(tolist(Row(AddResult.child, 1)), AddResult.precision)
       IN  BigLess(ra, rc) /\ BigLess(rb, rc)

(***************************************************************************)
(* The codec on its own: one call of _split_number, followed pass by       *)
(* pass, and then the two restore helpers on what it returned.             *)
(***************************************************************************)
CodecInit ==
    /\ arg \in SplitNumbers
    /\ bits \in SplitBits
    /\ number = arg
    /\ number_parts = <<>>
    /\ pc = "call"
    /\ returned = <<>>
    /\ restored = <<>>
    /\ TensorsIdle

\* Lines 99-102: a zero number is returned at once, before bits is looked at.
SplitCall ==
    /\ pc = "call"
    /\ IF IsZero(number)
       THEN /\ returned' = <<number>>
            /\ pc' = "return"
       ELSE /\ returned' = returned
            /\ pc' = "loop"
    /\ UNCHANGED <<arg, bits, number, number_parts, restored, tensorVars>>

\* Lines 103-105: one pass of the while loop.
SplitPass ==
    /\ pc = "loop"
    /\ ~IsZero(number)
    /\ Len(number_parts) < MaxParts
    /\ LET dm == DivMod(number, bits)
       IN  /\ number' = dm.q
           /\ number_parts' = Append(number_parts, dm.r)
    /\ UNCHANGED <<arg, bits, pc, returned, restored, tensorVars>>

\* Line 106: the loop has ended; the parts are returned most significant first.
SplitReturn ==
    /\ pc = "loop"
    /\ IsZero(number)
    /\ returned' = Reverse(number_parts)
    /\ pc' = "return"
    /\ UNCHANGED <<arg, bits, number, number_parts, restored, tensorVars>>

\* The returned list is restored with the same bits, as a list and as the
\* row of a numpy array built from it.
Restore ==
    /\ pc = "return"
    /\ bits > 0
    /\ restored' = <<_restore_number(returned, bits), _restore_number_np(returned, bits)>>
    /\ pc' = "done"
    /\ UNCHANGED <<arg, bits, number, number_parts, returned, tensorVars>>

CodecNext == SplitCall \/ SplitPass \/ SplitReturn \/ Restore

CodecSpec == CodecInit /\ [][CodecNext]_vars

(***************************************************************************)
(* Properties of the codec, checked under CodecSpec.                       *)
(***************************************************************************)
\* C1: for every number >= 0 and every bits > 0, both restore helpers turn
\* the list _split_number returned back into the number it was called with,
\* also when the number is wider than 64 bits.
C1_SplitRestoreInverse ==
    (pc = "done" /\ ~IsNeg(arg)) => restored = <<arg, arg>>

\* A number above 2^64 was split into three parts or more and restored.
C1_WideNumberRestored ==
    /\ pc = "done"
    /\ BigLess(Pow2(64), arg)
    /\ Len(returned) >= 3
    /\ restored[1] = arg
    /\ restored[2] = arg

\* C6: with bits <= 0 the call of _split_number fails at once with
\* InvalidArgument, whatever the number (0 included): it never enters its
\* loop and never returns a list.
C6_NonPositiveBitsRejected ==
    (bits <= 0 /\ pc # "call") => (pc = "InvalidArgument" /\ returned = <<>>)

\* C9: with bits > 0 the loop of _split_number ends for every number.  The
\* loop reads number and base only, so a pass that leaves number as it was
\* is followed by the same pass for ever: every pass must change number.
C9_EveryPassChangesNumber ==
    [][(bits > 0 /\ pc = "loop" /\ number_parts' # number_parts) => number' # number]_vars

=============================================================================
